---- MODULE Spec2Model ----
(***************************************************************************)
(* Model of the Aircom prediction raster band                              *)
(* (gdal/frmts/aircom/AircomPredRaster/RasterBand.cpp): block assembly,    *)
(* the row-coverage cache and the post-processing of a block.              *)
(*                                                                         *)
(* Numbers.  A C++ double is modelled by an integer counting HALVES        *)
(* (D(n) is the double n.0, D(n)+1 is n.5); NaN is a reserved number.  A    *)
(* pixel of an integer encoding holds an even number of halves.  Lengths   *)
(* of the prediction geometry are whole centimetres, as in predData.       *)
(***************************************************************************)
EXTENDS Integers, Sequences, FiniteSets, TLC

VARIABLES
    eDataType,      \* GDALRasterBand::eDataType
    sectionNum,     \* RasterBand::sectionNum
    noDataValue,    \* RasterBand::noDataValue (boost::optional<double>)
    nRasterXSize,   \* GDALRasterBand::nRasterXSize
    nRasterYSize,   \* GDALRasterBand::nRasterYSize
    nBlockXSize,    \* GDALRasterBand::nBlockXSize
    nBlockYSize,    \* GDALRasterBand::nBlockYSize
    geom,           \* predData and boundingBox of the ApiWrapper
    rowSegmentsInsidePredictionRadius,  \* the row-coverage cache
    pImage,         \* the caller's block buffer, row-major
    last,           \* the last operation: its inputs and its result
    thr,            \* per-thread position inside IReadBlock (SpecThreads)
    build           \* what the build makes of a conversion with undefined behaviour

vars == <<eDataType, sectionNum, noDataValue, nRasterXSize, nRasterYSize,
          nBlockXSize, nBlockYSize, geom, rowSegmentsInsidePredictionRadius,
          pImage, last, thr, build>>

band == <<eDataType, sectionNum, nRasterXSize, nRasterYSize,
          nBlockXSize, nBlockYSize, geom, build>>

\* boost::none; a present optional<double> d is the sequence <<d>>
None == <<>>
\* std::numeric_limits<double>::quiet_NaN(): a number outside every range in use
NaN == 2^30 + 1

Abs(x) == IF x < 0 THEN -x ELSE x
Min(a, b) == IF a < b THEN a ELSE b
Max(a, b) == IF a > b THEN a ELSE b

\* DIV_ROUND_UP of GDAL, for positive operands
DIV_ROUND_UP(a, b) == (a + b - 1) \div b

\* the double n.0, in halves
D(n) == 2 * n

(***************************************************************************)
(* Coverage mask: computeRowSegmentsInsidePredictionRadius.                *)
(* All quantities are doubled centimetres, so that the half pixel of the   *)
(* pixel centres stays an integer; sqrt, ceil and floor are computed       *)
(* exactly (the rounding of the double arithmetic is not modelled).        *)
(***************************************************************************)

RowSegment(s, e) == [start |-> s, end |-> e]

\* 2 * leftmostPixelCenter and 2 * topmostPixelCenter, in cm
leftmostPixelCenter2(g) == 2 * g.bbMinX + g.nResolution_cm
topmostPixelCenter2(g) == 2 * g.bbMaxY - g.nResolution_cm

\* 2 * yDistance of a row, in cm
yDistance2(g, rowIndex) ==
    Abs((topmostPixelCenter2(g) - rowIndex * 2 * g.nResolution_cm) - 2 * g.nY_cm)

\* (2 * xDistance)^2 of a row inside the radius
xDistanceSquared4(g, rowIndex) ==
    4 * g.nRadius_cm * g.nRadius_cm - yDistance2(g, rowIndex) * yDistance2(g, rowIndex)

\* the columns that can bound a segment of this geometry
ColumnRange(g) ==
    LET reach == (Abs(2 * g.nX_cm - leftmostPixelCenter2(g)) + 2 * g.nRadius_cm)
                     \div (2 * g.nResolution_cm) + 2
    IN  (-reach)..reach

\* int(std::ceil((txX - sqrt(s4)/2 - leftmostPixelCenter) / res)):
\* the least k with k*res >= txX - xDistance - leftmostPixelCenter
CeilStart(g, s4) ==
    LET a == 2 * g.nX_cm - leftmostPixelCenter2(g)
        q == 2 * g.nResolution_cm
        ok(k) == (a - k * q <= 0) \/ ((a - k * q) * (a - k * q) <= s4)
    IN  CHOOSE k \in ColumnRange(g) :
            ok(k) /\ \A j \in ColumnRange(g) : ok(j) => k <= j

\* int(std::floor((txX + sqrt(s4)/2 - leftmostPixelCenter) / res)):
\* the greatest k with k*res <= txX + xDistance - leftmostPixelCenter
FloorEnd(g, s4) ==
    LET a == 2 * g.nX_cm - leftmostPixelCenter2(g)
        q == 2 * g.nResolution_cm
        ok(k) == (k * q - a <= 0) \/ ((k * q - a) * (k * q - a) <= s4)
    IN  CHOOSE k \in ColumnRange(g) :
            ok(k) /\ \A j \in ColumnRange(g) : ok(j) => j <= k

\* a mutant of computeRowSegment: the segment starts one column too far left
computeRowSegmentFloorStart(g, rowIndex) ==
    IF yDistance2(g, rowIndex) > 2 * g.nRadius_cm
    THEN RowSegment(0, 0)
    ELSE RowSegment(CeilStart(g, xDistanceSquared4(g, rowIndex)) - 1,
                    FloorEnd(g, xDistanceSquared4(g, rowIndex)) + 1)

\* the body of the loop of computeRowSegmentsInsidePredictionRadius
computeRowSegment(g, rowIndex) ==
    IF yDistance2(g, rowIndex) > 2 * g.nRadius_cm
    THEN RowSegment(0, 0)
    ELSE RowSegment(CeilStart(g, xDistanceSquared4(g, rowIndex)),
                    FloorEnd(g, xDistanceSquared4(g, rowIndex)) + 1)

computeRowSegmentsInsidePredictionRadius(g, height) ==
    [i \in 1..height |-> computeRowSegment(g, i - 1)]

(***************************************************************************)
(* Pixel encodings and the conversions static_cast<T>(double).             *)
(***************************************************************************)

IntegerTypes == {"GDT_Byte", "GDT_Int16", "GDT_UInt16", "GDT_Int32", "GDT_UInt32"}
FloatTypes == {"GDT_Float32", "GDT_Float64"}
SupportedTypes == IntegerTypes \cup FloatTypes
\* an encoding of GDALDataType that no switch of RasterBand.cpp handles
UnsupportedTypes == {"GDT_CInt16"}

\* truncation toward zero of a double (in halves) to a whole number
Trunc(d) == IF d >= 0 THEN d \div 2 ELSE -((-d) \div 2)

\* whether the whole number n is a value of the integer encoding T.  Every
\* number of the model is below 2^31, so the upper limit 2^32-1 of UInt32
\* is never exceeded.
Representable(T, n) ==
    CASE T = "GDT_Byte"   -> 0 <= n /\ n <= 255
      [] T = "GDT_Int16"  -> -32768 <= n /\ n <= 32767
      [] T = "GDT_UInt16" -> 0 <= n /\ n <= 65535
      [] T = "GDT_Int32"  -> (-2147483647 - 1) <= n /\ n <= 2147483647
      [] T = "GDT_UInt32" -> 0 <= n

RECURSIVE Float32Step(_, _)
\* the spacing (in halves) of the floats around a magnitude a: 24 bits of mantissa
Float32Step(a, s) == IF a < 16777216 * s THEN s ELSE Float32Step(a, 2 * s)

\* static_cast<float>(double): round to nearest, ties to even
Float32Round(d) ==
    LET a == Abs(d)
        s == Float32Step(a, 1)
        lo == (a \div s) * s
        r == a - lo
        m == IF 2 * r < s THEN lo
             ELSE IF 2 * r > s THEN lo + s
             ELSE IF (lo \div s) % 2 = 0 THEN lo ELSE lo + s
    IN  IF d < 0 THEN -m ELSE m

\* pixel values of each encoding, as sequences (in halves); tile data and the
\* prior contents of a buffer are drawn from them
PixelSamples(T) ==
    CASE T = "GDT_Byte"    -> <<D(0), D(5), D(200), D(255)>>
      [] T = "GDT_Int16"   -> <<D(300), D(-50), D(1000), D(5), D(-9999), D(-20000), D(20000)>>
      [] T = "GDT_UInt16"  -> <<D(0), D(5), D(300), D(20000)>>
      [] T = "GDT_Int32"   -> <<D(-20000), D(-50), D(5), D(300)>>
      [] T = "GDT_UInt32"  -> <<D(0), D(5), D(300)>>
      [] T = "GDT_Float32" -> <<D(-9999), D(-50), D(5) + 1, D(300), NaN>>
      [] T = "GDT_Float64" -> <<D(-9999), D(-50), D(5) + 1, D(300), D(16777217), NaN>>
      [] OTHER             -> <<D(0), D(7)>>

\* what the common two's complement builds return for an out-of-range
\* conversion: the low bits of the value converted to a wider integer (of
\* the "integer indefinite" 0x80..0 for NaN).  The 32 bit results lie
\* outside the numbers of the model: the least sample of the encoding stands
\* for the result of a NaN, the greatest for a wrapped negative value.
WrapCast(T, d) ==
    LET n == IF d = NaN THEN 0 ELSE Trunc(d)
    IN  CASE T = "GDT_Byte"   -> D(n % 256)
          [] T = "GDT_UInt16" -> D(n % 65536)
          [] T = "GDT_Int16"  -> D(((n + 32768) % 65536) - 32768)
          [] OTHER            -> IF d = NaN THEN PixelSamples(T)[1]
                                 ELSE PixelSamples(T)[Len(PixelSamples(T))]

\* the builds: one wraps the value of an undefined conversion, the other
\* returns the greatest sample of the encoding
Builds == {"wrap", "edge"}

\* the outcome of a conversion with undefined behaviour in this build
UndefinedCast(T, d) ==
    IF build = "wrap" THEN {WrapCast(T, d)}
    ELSE {PixelSamples(T)[Len(PixelSamples(T))]}

\* static_cast<T>(d), as the set of its outcomes: the conversion of a NaN or
\* of a value outside the range of an integer T is undefined behaviour
StaticCast(T, d) ==
    IF T = "GDT_Float64" THEN {d}
    ELSE IF T = "GDT_Float32" THEN {IF d = NaN THEN NaN ELSE Float32Round(d)}
    ELSE IF d /= NaN /\ Representable(T, Trunc(d)) THEN {D(Trunc(d))}
    ELSE UndefinedCast(T, d)

\* the comparisons of C++ on values that may be NaN
Eq(a, b) == a /= NaN /\ b /= NaN /\ a = b
Lt(a, b) == a /= NaN /\ b /= NaN /\ a < b

(***************************************************************************)
(* The anonymous namespace of RasterBand.cpp.                              *)
(***************************************************************************)

\* a mutant of getNoDataValue: Float64 gets the default of Float32
getNoDataValueFloat64(dataType) ==
    CASE dataType = "GDT_Float32" -> <<D(-9999)>>
      [] dataType = "GDT_Int16"   -> <<D(-9999)>>
      [] dataType = "GDT_Byte"    -> <<D(200)>>
      [] dataType = "GDT_Float64" -> <<D(-9999)>>
      [] OTHER                    -> None

\* getNoDataValue(sectionInfo): the default sentinel of an encoding
getNoDataValue(dataType) ==
    CASE dataType = "GDT_Float32" -> <<D(-9999)>>
      [] dataType = "GDT_Int16"   -> <<D(-9999)>>
      [] dataType = "GDT_Byte"    -> <<D(200)>>
      [] OTHER                    -> None

\* getValidValuesRange; minValue and maxValue keep the NaN they are
\* initialised with in postProcessBlock when the section has no range
getValidValuesRange(section) ==
    CASE section = 0 -> [ok |-> TRUE, minValue |-> D(0), maxValue |-> D(200)]
      [] section = 1 -> [ok |-> TRUE, minValue |-> D(-18000), maxValue |-> D(18000)]
      [] OTHER       -> [ok |-> FALSE, minValue |-> NaN, maxValue |-> NaN]

\* fillWithNoDataValue<T>
fillWithNoDataValue(typedNoData, numPixels) == [i \in 1..numPixels |-> typedNoData]

\* the three typed values postProcessBlockRow<T> converts on entry
\* (typedNoDataValue stays uninitialised, and unread, without a sentinel)
TypedValues(T, noData, section) ==
    {[noData |-> n, minValue |-> lo, maxValue |-> hi] :
        n \in IF noData = None THEN {None} ELSE {<<v>> : v \in StaticCast(T, noData[1])},
        lo \in StaticCast(T, getValidValuesRange(section).minValue),
        hi \in StaticCast(T, getValidValuesRange(section).maxValue)}

\* the second loop of postProcessBlockRow on one value
ClampValue(value, typed) ==
    IF typed.noData /= None /\ Eq(value, typed.noData[1]) THEN value
    ELSE IF Lt(value, typed.minValue) THEN typed.minValue
    ELSE IF Lt(typed.maxValue, value) THEN typed.maxValue
    ELSE value

\* a mutant of postProcessBlockRow: the columns after the segment are kept
postProcessBlockRowNoTail(row, widthInPixels, seg, typed) ==
    [x \in 1..widthInPixels |->
        IF typed.noData /= None /\ x - 1 < seg.start THEN typed.noData[1]
        ELSE IF seg.start <= x - 1 /\ x - 1 < seg.end THEN ClampValue(row[x], typed)
        ELSE row[x]]

\* postProcessBlockRow<T>: its three loops write disjoint columns
postProcessBlockRow(row, widthInPixels, seg, typed) ==
    [x \in 1..widthInPixels |->
        IF typed.noData /= None /\ (x - 1 < seg.start \/ x - 1 >= seg.end)
        THEN typed.noData[1]
        ELSE IF seg.start <= x - 1 /\ x - 1 < seg.end THEN ClampValue(row[x], typed)
        ELSE row[x]]

(***************************************************************************)
(* Bounds of the model and the inputs drawn within them.                   *)
(***************************************************************************)

\* block width and height: 1..MaxBlockSize pixels
MaxBlockSize == 2
\* tile width and height: 1..MaxTileSize pixels
MaxTileSize == 2
\* section numbers 0..MaxSection
MaxSection == 2
\* bounding box width and height: up to MaxExtent cm
MaxExtent == 6
\* prediction radius: 0..MaxRadius cm
MaxRadius == 3
\* resolution: 1..MaxResolution cm per pixel
MaxResolution == 2
\* threads reading blocks of one band at once
MaxThreads == 2
\* sample offsets of the tile data and buffer contents of a read
MaxOffsets == 2

Sections == 0..MaxSection
AllTypes == SupportedTypes \cup UnsupportedTypes

\* the prediction geometries over the given parameter sets; the bounding box
\* has its minimum corner at the origin
Geometries(resolutions, radii, txs, tys, widths, heights) ==
    {[nResolution_cm |-> r, nRadius_cm |-> rad, nX_cm |-> x, nY_cm |-> y,
      bbMinX |-> 0, bbMaxY |-> h, bbWidth |-> w, bbHeight |-> h] :
        r \in resolutions, rad \in radii, x \in txs, y \in tys,
        w \in widths, h \in heights}

\* Dataset::setBoundingBox: the raster size is ceil(extent / resolution)
RasterXSize(g) == DIV_ROUND_UP(g.bbWidth, g.nResolution_cm)
RasterYSize(g) == DIV_ROUND_UP(g.bbHeight, g.nResolution_cm)

\* the values a caller passes to SetNoDataValue
NoDataInputs == {D(-9999), D(16777217) + 1}

\* a buffer of n pixels of encoding T: the samples taken in order from an
\* offset, with stride 0 (a constant fill) or 1
Pattern(T, n, offset, stride) ==
    LET S == PixelSamples(T)
    IN  [i \in 1..n |-> S[((offset + (i - 1) * stride) % Len(S)) + 1]]

\* the answers of the tile provider for a block: no tile, or a tile with a
\* region and the data of its region's pixels
Absent == [present |-> FALSE]
Tile(w, h, data) == [present |-> TRUE, m_width |-> w, m_height |-> h, data |-> data]
Tiles(T, offset) ==
    {Absent} \cup
    {Tile(w, h, Pattern(T, w * h, offset, 1)) : w \in 1..MaxTileSize, h \in 1..MaxTileSize}

GetPixelCount(tile) == tile.m_width * tile.m_height

(***************************************************************************)
(* RasterBand: reading a block.                                            *)
(***************************************************************************)

getNumPixelsPerBlock == nBlockXSize * nBlockYSize

nBlocksPerRow == DIV_ROUND_UP(nRasterXSize, nBlockXSize)
nBlocksPerColumn == DIV_ROUND_UP(nRasterYSize, nBlockYSize)
BlockIndices == (0..(nBlocksPerRow - 1)) \X (0..(nBlocksPerColumn - 1))

\* the typed values of a call; no conversion is made for an encoding that
\* no switch handles
TypedValuesOfBand ==
    IF eDataType \in SupportedTypes
    THEN TypedValues(eDataType, noDataValue, sectionNum)
    ELSE {[noData |-> noDataValue, minValue |-> NaN, maxValue |-> NaN]}

Threw(what, data) == [error |-> what, tilePresent |-> FALSE, data |-> data]
Returned(present, data) == [error |-> "none", tilePresent |-> present, data |-> data]

\* RasterBand::readTile: the first numPixels pixels of the tile, or a
\* logic_error for an encoding outside the seven
readTile(tile, numPixels) ==
    IF eDataType \in SupportedTypes
    THEN [ok |-> TRUE, data |-> SubSeq(tile.data, 1, numPixels)]
    ELSE [ok |-> FALSE, data |-> <<>>]

\* a mutant of fillNoDataBlock: the last pixel of the block is not filled
fillNoDataBlockShort(blockData, typed) ==
    IF noDataValue = None THEN Threw("unknown no-data value", blockData)
    ELSE IF eDataType \in SupportedTypes
    THEN Returned(FALSE, [i \in 1..getNumPixelsPerBlock |->
                            IF i < getNumPixelsPerBlock THEN typed.noData[1]
                            ELSE blockData[i]])
    ELSE Returned(FALSE, blockData)

\* RasterBand::fillNoDataBlock: its switch has no default, so the buffer of
\* an unhandled encoding is returned as it came
fillNoDataBlock(blockData, typed) ==
    IF noDataValue = None THEN Threw("unknown no-data value", blockData)
    ELSE IF eDataType \in SupportedTypes
    THEN Returned(FALSE, fillWithNoDataValue(typed.noData[1], getNumPixelsPerBlock))
    ELSE Returned(FALSE, blockData)

\* a mutant of fillPartialBlock: the first pixel of the tile is copied before
\* the size of the tile is looked at
fillPartialBlockCopyFirst(tile, blockData) ==
    IF tile.m_width > nBlockXSize \/ tile.m_height > nBlockYSize
    THEN Threw("a tile dimension is larger than the block's",
               [blockData EXCEPT ![1] = tile.data[1]])
    ELSE LET read == readTile(tile, tile.m_width * tile.m_height)
         IN  IF ~read.ok THEN Threw("unsupported GDAL data type", blockData)
             ELSE Returned(TRUE,
                    [i \in 1..getNumPixelsPerBlock |->
                        LET x == (i - 1) % nBlockXSize
                            y == (i - 1) \div nBlockXSize
                        IN  IF x < tile.m_width /\ y < tile.m_height
                            THEN read.data[y * tile.m_width + x + 1]
                            ELSE blockData[i]])

\* RasterBand::fillPartialBlock: the tile's rows are copied to the top-left
\* of the block, the other pixels of the buffer are not written
fillPartialBlock(tile, blockData) ==
    IF tile.m_width > nBlockXSize \/ tile.m_height > nBlockYSize
    THEN Threw("a tile dimension is larger than the block's", blockData)
    ELSE LET read == readTile(tile, tile.m_width * tile.m_height)
         IN  IF ~read.ok THEN Threw("unsupported GDAL data type", blockData)
             ELSE Returned(TRUE,
                    [i \in 1..getNumPixelsPerBlock |->
                        LET x == (i - 1) % nBlockXSize
                            y == (i - 1) \div nBlockXSize
                        IN  IF x < tile.m_width /\ y < tile.m_height
                            THEN read.data[y * tile.m_width + x + 1]
                            ELSE blockData[i]])

\* RasterBand::readBlock
readBlock(tile, data, typed) ==
    IF ~tile.present THEN fillNoDataBlock(data, typed)
    ELSE IF GetPixelCount(tile) = getNumPixelsPerBlock
    THEN LET read == readTile(tile, getNumPixelsPerBlock)
         IN  IF read.ok THEN Returned(TRUE, read.data)
             ELSE Threw("unsupported GDAL data type", data)
    ELSE fillPartialBlock(tile, data)

\* the lambda computeBlockRowSegment of postProcessBlock; a row index past
\* the end of the cache reads whatever lies behind the vector (wild)
computeBlockRowSegment(cache, blockIndex, y, wild) ==
    LET startColumnIndex == blockIndex[1] * nBlockXSize
        startRowIndex == blockIndex[2] * nBlockYSize
        rowSegment == IF startRowIndex + y < Len(cache)
                      THEN cache[startRowIndex + y + 1]
                      ELSE wild
    IN  RowSegment(Max(0, Min(nBlockXSize, rowSegment.start - startColumnIndex)),
                   Max(0, Min(nBlockXSize, rowSegment.end - startColumnIndex)))

BlockRowSegments(cache, blockIndex, wild) ==
    [r \in 1..nBlockYSize |-> computeBlockRowSegment(cache, blockIndex, r - 1, wild)]

\* the rows of the block lie inside the cache
RowsInsideCache(cache, blockIndex) ==
    blockIndex[2] * nBlockYSize + nBlockYSize <= Len(cache)

\* what a read past the end of the cache can return
WildSegments == {RowSegment(0, 0), RowSegment(0, MaxBlockSize)}

\* the row-coverage cache after the first lines of postProcessBlock
CacheAfterBuild(cache) ==
    IF Len(cache) = 0
    THEN computeRowSegmentsInsidePredictionRadius(geom, nRasterYSize)
    ELSE cache

\* RasterBand::postProcessBlock on the rows of the buffer; its switch has
\* no default
postProcessBlock(data, blockIndex, cache, typed, wild) ==
    IF eDataType \notin SupportedTypes THEN data
    ELSE [i \in 1..getNumPixelsPerBlock |->
            LET x == (i - 1) % nBlockXSize
                y == (i - 1) \div nBlockXSize
                row == SubSeq(data, y * nBlockXSize + 1, (y + 1) * nBlockXSize)
            IN  postProcessBlockRow(row, nBlockXSize,
                    computeBlockRowSegment(cache, blockIndex, y, wild), typed)[x + 1]]

Idle == [op |-> "none", result |-> "none", error |-> "none", blockIndex |-> <<0, 0>>,
         tile |-> Absent, prior |-> <<>>, decoded |-> <<>>, typed |-> None,
         segs |-> <<>>, wild |-> RowSegment(0, 0), tilePresent |-> FALSE,
         postProcessed |-> FALSE,
         value |-> None, success |-> FALSE, pass |-> 0]

\* RasterBand::IReadBlock for one answer of the tile provider, on a buffer
\* holding prior
IReadBlock(blockIndex, tile, prior, typed, wild) ==
    LET rb == readBlock(tile, prior, typed)
        run == rb.error = "none" /\ rb.tilePresent
        cache == IF run THEN CacheAfterBuild(rowSegmentsInsidePredictionRadius)
                 ELSE rowSegmentsInsidePredictionRadius
    IN  /\ rowSegmentsInsidePredictionRadius' = cache
        /\ pImage' = IF run THEN postProcessBlock(rb.data, blockIndex, cache, typed, wild)
                     ELSE rb.data
        /\ last' = [Idle EXCEPT
                      !.op = "IReadBlock",
                      !.result = IF rb.error = "none" THEN "CE_None" ELSE "CE_Failure",
                      !.error = rb.error,
                      !.blockIndex = blockIndex,
                      !.tile = tile,
                      !.prior = prior,
                      !.decoded = rb.data,
                      !.typed = IF run THEN typed
                                ELSE IF rb.error = "none"
                                THEN [typed EXCEPT !.minValue = NaN, !.maxValue = NaN]
                                ELSE None,
                      !.segs = IF run THEN BlockRowSegments(cache, blockIndex, wild)
                               ELSE <<>>,
                      !.tilePresent = rb.tilePresent,
                      !.postProcessed = run]
        /\ UNCHANGED <<band, noDataValue, thr>>

\* a block read: the caller's buffer holds anything, the provider answers
\* anything
ReadBlock ==
    /\ last.op = "none"
    /\ \E blockIndex \in BlockIndices, offset \in 0..(MaxOffsets - 1),
          typed \in TypedValuesOfBand :
        \E tile \in Tiles(eDataType, offset),
           prior \in {Pattern(eDataType, getNumPixelsPerBlock, offset + 1, 0)} :
         \E wild \in IF RowsInsideCache(CacheAfterBuild(rowSegmentsInsidePredictionRadius),
                                        blockIndex)
                     THEN {RowSegment(0, 0)} ELSE WildSegments :
             IReadBlock(blockIndex, tile, prior, typed, wild)

\* RasterBand::SetNoDataValue
SetNoDataValue ==
    \E value \in NoDataInputs :
        /\ last.op = "none"
        /\ noDataValue' = <<value>>
        /\ last' = [Idle EXCEPT !.op = "SetNoDataValue", !.result = "CE_None",
                                !.value = <<value>>]
        /\ UNCHANGED <<band, rowSegmentsInsidePredictionRadius, pImage, thr>>

\* RasterBand::GetNoDataValue with a pbSuccess
GetNoDataValue ==
    /\ last.op = "none"
    /\ last' = [Idle EXCEPT !.op = "GetNoDataValue",
                            !.value = IF noDataValue /= None THEN noDataValue
                                      ELSE <<NaN>>,
                            !.success = (noDataValue /= None)]
    /\ UNCHANGED <<band, noDataValue, rowSegmentsInsidePredictionRadius, pImage, thr>>

\* the geometries of the bands that read blocks
BandGeometries ==
    Geometries({2}, {1, 3}, {1}, {3}, {4}, {6})

\* RasterBand::RasterBand
InitBand(types, geometries) ==
    /\ eDataType \in types
    /\ sectionNum \in Sections
    /\ noDataValue = getNoDataValue(eDataType)
    /\ geom \in geometries
    /\ nRasterXSize = RasterXSize(geom)
    /\ nRasterYSize = RasterYSize(geom)
    /\ nBlockXSize \in 1..MaxBlockSize
    /\ nBlockYSize \in 1..MaxBlockSize
    /\ rowSegmentsInsidePredictionRadius = <<>>
    /\ build \in Builds

NoThreads == <<>>

Init ==
    /\ InitBand(AllTypes, BandGeometries)
    /\ pImage = <<>>
    /\ last = Idle
    /\ thr = NoThreads

\* the caller has taken the result of its call (and its buffer) and may call
\* again: calls on the band follow one another
Consume ==
    /\ last.op /= "none"
    /\ last' = Idle
    /\ pImage' = <<>>
    /\ UNCHANGED <<band, noDataValue, rowSegmentsInsidePredictionRadius, thr>>

Next == ReadBlock \/ SetNoDataValue \/ GetNoDataValue \/ Consume

Spec == Init /\ [][Next]_vars

(***************************************************************************)
(* Properties of a block read (specification Spec).                        *)
(***************************************************************************)

ReadDone == last.op = "IReadBlock"
Succeeded == last.result = "CE_None"
Failed == last.result = "CE_Failure"

\* the tile of the last read lies outside the block on some axis
TileLargerThanBlock ==
    last.tile.present /\
    (last.tile.m_width > nBlockXSize \/ last.tile.m_height > nBlockYSize)

\* the tile of the last read is smaller than the block and fits into it
TileSmallerThanBlock ==
    /\ last.tile.present
    /\ last.tile.m_width <= nBlockXSize /\ last.tile.m_height <= nBlockYSize
    /\ GetPixelCount(last.tile) < getNumPixelsPerBlock

\* the 1-based positions of the buffer outside the top-left region of the tile
OutsideTile ==
    {i \in 1..getNumPixelsPerBlock :
        ((i - 1) % nBlockXSize) >= last.tile.m_width
            \/ ((i - 1) \div nBlockXSize) >= last.tile.m_height}

\* C1: when the provider has no tile for the block, a read of a band with a
\* sentinel succeeds without post-processing (the row-coverage cache is not
\* touched) and, for each of the seven encodings, every pixel of the block
\* is the sentinel converted to the encoding; without a sentinel it fails.
C1_AbsentTile ==
    (ReadDone /\ ~last.tile.present) =>
        IF noDataValue /= None
        THEN /\ Succeeded
             /\ ~last.postProcessed
             /\ eDataType \in SupportedTypes =>
                  /\ Len(pImage) = nBlockXSize * nBlockYSize
                  /\ \E v \in StaticCast(eDataType, noDataValue[1]) :
                        \A i \in 1..(nBlockXSize * nBlockYSize) : pImage[i] = v
        ELSE Failed

\* a sentinel that the conversion to float rounds fills a block of 4 pixels
C1_Witness ==
    /\ ReadDone /\ ~last.tile.present /\ Succeeded
    /\ eDataType = "GDT_Float32"
    /\ noDataValue = <<D(16777217) + 1>>
    /\ pImage = <<D(16777218), D(16777218), D(16777218), D(16777218)>>

\* C2: every tile wider or higher than the block makes the read fail with
\* the tile-larger-than-block error (the error is looked at for the seven
\* encodings, where no other failure competes with it).
C2_LargerTileFails ==
    (ReadDone /\ TileLargerThanBlock) =>
        /\ Failed
        /\ eDataType \in SupportedTypes =>
              last.error = "a tile dimension is larger than the block's"

\* C3: after the read of a tile smaller than the block, every pixel outside
\* the tile's region was written by the sentinel fill of the post-processor:
\* a sentinel is configured, the pixel lies outside the coverage segment of
\* its row and holds the sentinel.
C3_OutsideTileIsSentinel ==
    (ReadDone /\ Succeeded /\ TileSmallerThanBlock) =>
        \A i \in OutsideTile :
            LET x == (i - 1) % nBlockXSize
                seg == last.segs[((i - 1) \div nBlockXSize) + 1]
            IN  /\ last.typed.noData /= None
                /\ x < seg.start \/ x >= seg.end
                /\ pImage[i] = last.typed.noData[1]

\* C10: a band whose encoding is none of the seven fails every block read.
C10_UnsupportedEncodingFails ==
    (ReadDone /\ eDataType \notin SupportedTypes) => Failed

\* a step of the behaviour is a call of the named operation
CallOf(op) == last.op = "none" /\ last'.op = op

\* C11: a block read that returns failure has written nothing to the
\* caller's buffer and has left the band (its sentinel, its row-coverage
\* cache and what the constructor set) as it was.
C11_FailedReadWritesNothing ==
    [][(CallOf("IReadBlock") /\ last'.result = "CE_Failure") =>
          /\ pImage' = last'.prior
          /\ noDataValue' = noDataValue
          /\ rowSegmentsInsidePredictionRadius' = rowSegmentsInsidePredictionRadius
          /\ band' = band]_vars

\* a read fails on a tile larger than the block after the cache was built
\* and a sentinel was set; the buffer is the caller's
C11_Witness ==
    /\ ReadDone /\ Failed /\ TileLargerThanBlock
    /\ last.error = "a tile dimension is larger than the block's"
    /\ Len(rowSegmentsInsidePredictionRadius) > 0
    /\ noDataValue = <<D(16777217) + 1>>
    /\ Len(pImage) > 0 /\ pImage = last.prior
    /\ pImage[1] /= last.tile.data[1]

\* the sentinel a band has after construction, by encoding
DefaultSentinel ==
    /\ eDataType \in {"GDT_Float32", "GDT_Int16"} => noDataValue = <<D(-9999)>>
    /\ eDataType = "GDT_Byte" => noDataValue = <<D(200)>>
    /\ eDataType \notin {"GDT_Float32", "GDT_Int16", "GDT_Byte"} => noDataValue = None

\* SetNoDataValue succeeds and stores its argument; GetNoDataValue reports
\* the stored sentinel and whether there is one; nothing else changes it
SentinelStep ==
    /\ CallOf("SetNoDataValue") =>
          /\ last'.result = "CE_None"
          /\ last'.value /= None
          /\ noDataValue' = last'.value
    /\ ~CallOf("SetNoDataValue") => noDataValue' = noDataValue
    /\ CallOf("GetNoDataValue") =>
          /\ last'.success = (noDataValue /= None)
          /\ noDataValue /= None => last'.value = noDataValue

\* C12: a band starts with the default sentinel of its encoding (Float32
\* and Int16: -9999, Byte: 200, any other: none); SetNoDataValue always
\* succeeds and overwrites it; GetNoDataValue reports the sentinel last set,
\* or the default, with success; no other operation changes the sentinel.
C12_SentinelKept ==
    DefaultSentinel /\ [][SentinelStep]_vars

\* GetNoDataValue reports a set sentinel of a band that has no default,
\* after a block read has built the cache
C12_Witness ==
    /\ last.op = "GetNoDataValue"
    /\ last.success
    /\ last.value = <<D(16777217) + 1>>
    /\ eDataType = "GDT_UInt16"
    /\ Len(rowSegmentsInsidePredictionRadius) > 0

\* C14: every block read that post-processes looks up only rows of the
\* row-coverage cache: the row index blockRow * blockHeight + y of every
\* row y of the block is smaller than the raster height.
C14_RowIndexInsideCache ==
    (ReadDone /\ last.postProcessed) =>
        /\ Len(rowSegmentsInsidePredictionRadius) = nRasterYSize
        /\ \A y \in 0..(nBlockYSize - 1) :
              last.blockIndex[2] * nBlockYSize + y < nRasterYSize

\* the pixel holds a number within the valid range of the section
InValidRange(v) ==
    /\ v /= NaN
    /\ getValidValuesRange(sectionNum).minValue <= v
    /\ v <= getValidValuesRange(sectionNum).maxValue

\* C15: a successful read of a band with a sentinel and a section with a
\* valid range returns a full block in which every pixel is the sentinel
\* (converted to the encoding) or lies within the range.
C15_SentinelOrInRange ==
    (ReadDone /\ Succeeded /\ noDataValue /= None /\ getValidValuesRange(sectionNum).ok) =>
        /\ Len(pImage) = nBlockXSize * nBlockYSize
        /\ \A i \in 1..Len(pImage) :
              \/ InValidRange(pImage[i])
              \/ (eDataType \in SupportedTypes
                    /\ pImage[i] \in StaticCast(eDataType, noDataValue[1]))

(***************************************************************************)
(* Post-processing on its own (specification SpecPost): postProcessBlock   *)
(* is applied, up to twice, to a buffer drawn from the samples of the      *)
(* band's encoding.                                                        *)
(***************************************************************************)

\* the sentinels a band can hold: the default of its encoding, or a value set
SentinelsOf(T) == {getNoDataValue(T)} \cup {<<v>> : v \in NoDataInputs}

\* the assembled buffers handed to postProcessBlock
BuffersOf(T, n) ==
    {Pattern(T, n, o, st) : o \in 0..(Len(PixelSamples(T)) - 1), st \in {0, 1}}

InitPost ==
    /\ eDataType \in SupportedTypes
    /\ sectionNum \in Sections
    /\ noDataValue \in SentinelsOf(eDataType)
    /\ geom \in BandGeometries
    /\ nRasterXSize = RasterXSize(geom)
    /\ nRasterYSize = RasterYSize(geom)
    /\ nBlockXSize \in 1..MaxBlockSize
    /\ nBlockYSize \in 1..MaxBlockSize
    /\ rowSegmentsInsidePredictionRadius = <<>>
    /\ build \in Builds
    /\ pImage \in BuffersOf(eDataType, nBlockXSize * nBlockYSize)
    /\ last = Idle
    /\ thr = NoThreads

\* RasterBand::postProcessBlock, the cache built on its first call; a second
\* call is made with the block index of the first and finds the same memory
\* behind the cache
PostProcessBlock ==
    /\ last.pass < 2
    /\ \E blockIndex \in BlockIndices, typed \in TypedValuesOfBand :
         /\ last.pass > 0 => blockIndex = last.blockIndex
         /\ \E wild \in IF RowsInsideCache(CacheAfterBuild(rowSegmentsInsidePredictionRadius),
                                           blockIndex)
                        THEN {RowSegment(0, 0)} ELSE WildSegments :
              LET cache == CacheAfterBuild(rowSegmentsInsidePredictionRadius)
              IN  /\ last.pass > 0 => wild = last.wild
                  /\ rowSegmentsInsidePredictionRadius' = cache
                  /\ pImage' = postProcessBlock(pImage, blockIndex, cache, typed, wild)
                  /\ last' = [Idle EXCEPT
                                !.op = "postProcessBlock",
                                !.blockIndex = blockIndex,
                                !.prior = pImage,
                                !.typed = typed,
                                !.segs = BlockRowSegments(cache, blockIndex, wild),
                                !.wild = wild,
                                !.pass = last.pass + 1]
                  /\ UNCHANGED <<band, noDataValue, thr>>

NextPost == PostProcessBlock

SpecPost == InitPost /\ [][NextPost]_vars

PostDone == last.op = "postProcessBlock"

\* column and coverage segment of the i-th pixel of the block
ColumnOf(i) == (i - 1) % nBlockXSize
SegmentOf(i) == last.segs[((i - 1) \div nBlockXSize) + 1]
InsideSegment(i) == SegmentOf(i).start <= ColumnOf(i) /\ ColumnOf(i) < SegmentOf(i).end
Pixels == 1..(nBlockXSize * nBlockYSize)

\* C4: after post-processing, every column of a row before the start or at or
\* after the end of the row's block-relative coverage segment holds the
\* sentinel (converted to the encoding) when a sentinel is configured, and
\* its decoded value when none is.
C4_OutsideSegment ==
    PostDone =>
        \A i \in Pixels :
            ~InsideSegment(i) =>
                IF noDataValue /= None
                THEN /\ pImage[i] = last.typed.noData[1]
                     /\ pImage[i] \in StaticCast(eDataType, noDataValue[1])
                ELSE pImage[i] = last.prior[i]

\* a column outside the segment is overwritten, one inside is not
C4_Witness ==
    /\ PostDone
    /\ noDataValue /= None
    /\ \E i \in Pixels : ~InsideSegment(i) /\ last.prior[i] /= pImage[i]
    /\ \E i \in Pixels : InsideSegment(i) /\ pImage[i] /= last.typed.noData[1]

\* the same without a sentinel: a decoded value outside the range is kept
C4_WitnessNoSentinel ==
    /\ PostDone
    /\ noDataValue = None
    /\ \E i \in Pixels : ~InsideSegment(i) /\ Lt(last.typed.maxValue, pImage[i])

\* the clamp of a number into [lo, hi]
Clamped(v, lo, hi) == Max(lo, Min(hi, v))

\* C5: a column inside the coverage segment that holds the sentinel is left
\* unchanged; any other (numeric) value v of a section with a valid range
\* ends at max(min, min(max, v)).
C5_InsideSegment ==
    (PostDone /\ getValidValuesRange(sectionNum).ok) =>
        \A i \in Pixels :
            (InsideSegment(i) /\ last.prior[i] /= NaN) =>
                IF noDataValue /= None /\ last.prior[i] = last.typed.noData[1]
                THEN pImage[i] = last.prior[i]
                ELSE pImage[i] = Clamped(last.prior[i],
                                         getValidValuesRange(sectionNum).minValue,
                                         getValidValuesRange(sectionNum).maxValue)

\* C6: in a section without a valid range, the columns inside the coverage
\* segment are left unchanged, for each of the seven encodings.
C6_NoRangeNoClamp ==
    (PostDone /\ ~getValidValuesRange(sectionNum).ok) =>
        \A i \in Pixels : InsideSegment(i) => pImage[i] = last.prior[i]

\* C7: post-processing an already post-processed block leaves it unchanged.
C7_Idempotent ==
    (PostDone /\ last.pass = 2) => pImage = last.prior

(***************************************************************************)
(* The coverage mask on its own (specification SpecSeg): the cache of a    *)
(* band is built for every geometry within the bounds.                     *)
(***************************************************************************)

SegGeometries ==
    Geometries(1..MaxResolution, 0..MaxRadius, 0..MaxExtent, 0..MaxExtent,
               {MaxExtent}, 1..MaxExtent)

InitSeg ==
    /\ eDataType = "GDT_Float32"
    /\ sectionNum = 0
    /\ noDataValue = getNoDataValue(eDataType)
    /\ geom \in SegGeometries
    /\ nRasterXSize = RasterXSize(geom)
    /\ nRasterYSize = RasterYSize(geom)
    /\ nBlockXSize = 1
    /\ nBlockYSize = 1
    /\ rowSegmentsInsidePredictionRadius = <<>>
    /\ build = "wrap"
    /\ pImage = <<>>
    /\ last = Idle
    /\ thr = NoThreads

\* RasterBand::computeRowSegmentsInsidePredictionRadius
ComputeRowSegments ==
    /\ Len(rowSegmentsInsidePredictionRadius) = 0
    /\ rowSegmentsInsidePredictionRadius' =
           computeRowSegmentsInsidePredictionRadius(geom, nRasterYSize)
    /\ last' = [Idle EXCEPT !.op = "computeRowSegmentsInsidePredictionRadius"]
    /\ UNCHANGED <<band, noDataValue, pImage, thr>>

NextSeg == ComputeRowSegments

SpecSeg == InitSeg /\ [][NextSeg]_vars

CacheBuilt == Len(rowSegmentsInsidePredictionRadius) > 0
RasterRows == 0..(nRasterYSize - 1)
\* columns on both sides of every segment of the geometries
CheckColumns == (-(2 * (MaxExtent + MaxRadius) + 3))..(2 * (MaxExtent + MaxRadius) + 3)

RowOutsideRadius(r) == yDistance2(geom, r) > 2 * geom.nRadius_cm

\* twice the signed distance of the centre of column c from the transmitter
CentreOffset2(c) == leftmostPixelCenter2(geom) + c * 2 * geom.nResolution_cm - 2 * geom.nX_cm

\* the centre of column c lies strictly inside, or inside, the extent
\* [tx - dx, tx + dx] of the disk at row r
StrictlyInsideExtent(r, c) ==
    ~RowOutsideRadius(r) /\ CentreOffset2(c) * CentreOffset2(c) < xDistanceSquared4(geom, r)
InsideExtent(r, c) ==
    ~RowOutsideRadius(r) /\ CentreOffset2(c) * CentreOffset2(c) <= xDistanceSquared4(geom, r)

InCachedSegment(r, c) ==
    rowSegmentsInsidePredictionRadius[r + 1].start <= c
        /\ c < rowSegmentsInsidePredictionRadius[r + 1].end

Threads == 1..MaxThreads

InitThreads ==
    /\ eDataType = "GDT_Int16"
    /\ sectionNum \in Sections
    /\ noDataValue = getNoDataValue(eDataType)
    /\ geom \in BandGeometries
    /\ nRasterXSize = RasterXSize(geom)
    /\ nRasterYSize = RasterYSize(geom)
    /\ nBlockXSize \in 1..MaxBlockSize
    /\ nBlockYSize = 1
    /\ rowSegmentsInsidePredictionRadius = <<>>
    /\ build = "wrap"
    /\ pImage = <<>>
    /\ last = Idle
    /\ thr = [pc |-> [t \in Threads |-> "idle"],
              blockIndex |-> [t \in Threads |-> <<0, 0>>],
              rowIndex |-> [t \in Threads |-> 0],
              data |-> [t \in Threads |-> <<>>],
              builds |-> 0,
              readUnbuilt |-> FALSE]

\* IReadBlock up to the call of postProcessBlock: readBlock copies a full tile
ThreadReadBlock(t) ==
    /\ thr.pc[t] = "idle"
    /\ \E blockIndex \in BlockIndices :
         thr' = [thr EXCEPT
                   !.pc[t] = "postProcessBlock",
                   !.blockIndex[t] = blockIndex,
                   !.data[t] = readBlock(Tile(nBlockXSize, nBlockYSize,
                                              Pattern(eDataType, getNumPixelsPerBlock, 0, 1)),
                                         <<>>, None).data]
    /\ UNCHANGED <<band, noDataValue, rowSegmentsInsidePredictionRadius, pImage, last>>

\* if (rowSegmentsInsidePredictionRadius.empty())
ThreadCheckEmpty(t) ==
    /\ thr.pc[t] = "postProcessBlock"
    /\ thr' = [thr EXCEPT !.pc[t] = IF Len(rowSegmentsInsidePredictionRadius) = 0
                                    THEN "resize" ELSE "rows"]
    /\ UNCHANGED <<band, noDataValue, rowSegmentsInsidePredictionRadius, pImage, last>>

\* rowSegmentsInsidePredictionRadius.resize(nRasterYSize)
ThreadResize(t) ==
    /\ thr.pc[t] = "resize"
    /\ rowSegmentsInsidePredictionRadius' =
          [i \in 1..nRasterYSize |->
              IF i <= Len(rowSegmentsInsidePredictionRadius)
              THEN rowSegmentsInsidePredictionRadius[i] ELSE RowSegment(0, 0)]
    /\ thr' = [thr EXCEPT !.pc[t] = "fill", !.rowIndex[t] = 0,
                          !.builds = thr.builds + 1]
    /\ UNCHANGED <<band, noDataValue, pImage, last>>

\* one turn of the loop over the rows of the raster
ThreadFillRow(t) ==
    /\ thr.pc[t] = "fill"
    /\ IF thr.rowIndex[t] < nRasterYSize
       THEN /\ rowSegmentsInsidePredictionRadius' =
                  [rowSegmentsInsidePredictionRadius EXCEPT
                      ![thr.rowIndex[t] + 1] = computeRowSegment(geom, thr.rowIndex[t])]
            /\ thr' = [thr EXCEPT !.rowIndex[t] = thr.rowIndex[t] + 1]
       ELSE /\ thr' = [thr EXCEPT !.pc[t] = "rows"]
            /\ UNCHANGED rowSegmentsInsidePredictionRadius
    /\ UNCHANGED <<band, noDataValue, pImage, last>>

\* the switch of postProcessBlock: the rows of the block are processed with
\* the segments the cache holds now; IReadBlock returns
ThreadProcessRows(t) ==
    /\ thr.pc[t] = "rows"
    /\ \E typed \in TypedValuesOfBand :
         /\ pImage' = postProcessBlock(thr.data[t], thr.blockIndex[t],
                                       rowSegmentsInsidePredictionRadius, typed,
                                       RowSegment(0, 0))
         /\ last' = [Idle EXCEPT !.op = "IReadBlock", !.result = "CE_None",
                                 !.blockIndex = thr.blockIndex[t],
                                 !.decoded = thr.data[t]]
    /\ thr' = [thr EXCEPT
                 !.pc[t] = "idle",
                 !.data[t] = <<>>,
                 !.readUnbuilt =
                     rowSegmentsInsidePredictionRadius
                        /= computeRowSegmentsInsidePredictionRadius(geom, nRasterYSize)]
    /\ UNCHANGED <<band, noDataValue, rowSegmentsInsidePredictionRadius>>

NextThreads ==
    \E t \in Threads :
        \/ ThreadReadBlock(t)
        \/ ThreadCheckEmpty(t)
        \/ ThreadResize(t)
        \/ ThreadFillRow(t)
        \/ ThreadProcessRows(t)

SpecThreads == InitThreads /\ [][NextThreads]_vars

\* a thread is building the cache
Building(t) == thr.pc[t] \in {"resize", "fill"}

\* C9: under any interleaving of block reads the cache is built once, by a
\* single builder while the other callers wait, and no call processes its
\* rows with a cache that is not completely built.
C9_CacheBuiltOnce ==
    /\ thr.builds <= 1
    /\ \A t, u \in Threads : (Building(t) /\ Building(u)) => t = u
    /\ \A t \in Threads :
          thr.pc[t] = "rows" =>
              rowSegmentsInsidePredictionRadius
                  = computeRowSegmentsInsidePredictionRadius(geom, nRasterYSize)
    /\ ~thr.readUnbuilt

(***************************************************************************)
(* IndexDataset::IRasterIO (specification SpecIO): one request, drawn from *)
(* the arguments below, is validated and handed to render.  The request    *)
(* and its outcome are kept in last; the band variables are not used.      *)
(***************************************************************************)

\* the largest source or buffer extent of a request
MaxIOSize == 3

\* sizeof(std::int16_t)
sizeofInt16 == 2

\* std::lround(static_cast<double>(n) / d) for positive n and d: to the
\* nearest integer, halves away from zero
lround(n, d) == (2 * n + d) \div (2 * d)

\* the arguments of IRasterIO that it looks at
Requests ==
    [eRWFlag : {"GF_Read", "GF_Write"},
     nXSize : 0..MaxIOSize, nYSize : 0..MaxIOSize,
     nBufXSize : 0..MaxIOSize, nBufYSize : 0..MaxIOSize,
     pData : {"nullptr", "buffer"},
     eBufType : {"GDT_Int16", "GDT_Byte"},
     nPixelSpace : {0, sizeofInt16, 2 * sizeofInt16},
     nLineSpace : {n * sizeofInt16 : n \in 0..(MaxIOSize + 1)}]

NoRequest == [op |-> "none", result |-> "none", error |-> "none",
              rendered |-> FALSE, resolution |-> 0]

InitIO ==
    /\ eDataType = "GDT_Int16"
    /\ sectionNum = 0
    /\ noDataValue = None
    /\ geom = <<>>
    /\ nRasterXSize = 0
    /\ nRasterYSize = 0
    /\ nBlockXSize = 1
    /\ nBlockYSize = 1
    /\ rowSegmentsInsidePredictionRadius = <<>>
    /\ build = "wrap"
    /\ pImage = <<>>
    /\ thr = NoThreads
    /\ \E request \in Requests : last = [NoRequest EXCEPT !.op = "request"] @@ request

\* the checks of IndexDataset::IRasterIO in their order: the error of the
\* first that fails, "none" when the request reaches render
validate(r) ==
    IF r.eRWFlag /= "GF_Read" THEN "CPLE_NoWriteAccess"
    ELSE IF r.nXSize <= 0 \/ r.nYSize <= 0 \/ r.nBufXSize <= 0 \/ r.nBufYSize <= 0
            \/ r.pData = "nullptr"
    THEN "CPLE_IllegalArg"
    ELSE IF r.eBufType /= "GDT_Int16"
            \/ (r.nPixelSpace /= 0 /\ r.nPixelSpace /= sizeofInt16)
            \/ (r.nLineSpace /= 0 /\ r.nLineSpace /= r.nBufXSize * r.nPixelSpace)
    THEN "CPLE_NotSupported"
    ELSE IF lround(r.nXSize, r.nBufXSize) /= lround(r.nYSize, r.nBufYSize)
    THEN "CPLE_NotSupported"
    ELSE "none"

\* IndexDataset::IRasterIO: a request that passes the checks is rendered,
\* and render reports success or catches an exception of the renderer
IRasterIO ==
    /\ last.op = "request"
    /\ LET error == validate(last)
       IN  IF error /= "none"
           THEN last' = [last EXCEPT !.op = "IRasterIO", !.result = "CE_Failure",
                                     !.error = error]
           ELSE \E success \in BOOLEAN :
                  last' = [last EXCEPT
                             !.op = "IRasterIO",
                             !.rendered = TRUE,
                             !.resolution = lround(last.nXSize, last.nBufXSize),
                             !.result = IF success THEN "CE_None" ELSE "CE_Failure"]
    /\ UNCHANGED <<band, noDataValue, rowSegmentsInsidePredictionRadius, pImage, thr>>

NextIO == IRasterIO

SpecIO == InitIO /\ [][NextIO]_vars

IODone == last.op = "IRasterIO"

\* the request has positive extents and a buffer
HasExtents ==
    /\ last.nXSize > 0 /\ last.nYSize > 0
    /\ last.nBufXSize > 0 /\ last.nBufYSize > 0
    /\ last.pData /= "nullptr"

\* the layout of the buffer is contiguous: pixels 0 or 2 bytes apart, lines
\* 0 or nBufXSize * 2 bytes apart
Contiguous ==
    /\ last.nPixelSpace \in {0, 2}
    /\ last.nLineSpace \in {0, last.nBufXSize * 2}

\* the rounded resolutions of the two axes are the same
UniformResolution ==
    (2 * last.nXSize + last.nBufXSize) \div (2 * last.nBufXSize)
        = (2 * last.nYSize + last.nBufYSize) \div (2 * last.nBufYSize)

\* the requests that are to be rendered
ValidRequest ==
    /\ last.eRWFlag = "GF_Read"
    /\ HasExtents
    /\ last.eBufType = "GDT_Int16"
    /\ Contiguous
    /\ UniformResolution

\* C13: IRasterIO fails without rendering every request that is not a read,
\* has a non-positive extent or no buffer, a buffer type other than Int16, a
\* layout that is not contiguous or differing rounded resolutions; it
\* renders every other request, for each combination of pixel spacing 0 or
\* 2 and line spacing 0 or nBufXSize * 2.
C13_ValidatedThenRendered ==
    IODone =>
        IF ValidRequest THEN last.rendered
        ELSE last.result = "CE_Failure" /\ ~last.rendered

====
